---- MODULE Spec2Model ----
(***************************************************************************)
(* Model of the status pollers (ExecutionMonitor.monitor,                  *)
(* execute_action.monitor_execution,                                       *)
(* ActionWorkflow.step_3_monitor_execution) and of the ETL pipeline        *)
(* orchestrator (ETLPipeline) of the mindzie API examples.                 *)
(***************************************************************************)
EXTENDS Integers, Sequences, FiniteSets, TLC

(***************************************************************************)
(* Bounds of the model.                                                    *)
(***************************************************************************)
MaxDuration == 10
MaxIntervalCut == 2
MaxLatency == 1
MaxDelay == 2
MaxSources == 2
MaxTransforms == 2
MaxRuns == 2

\* enough polls for any run within the bounds; caps the poll counters
FetchCap == MaxDuration + 2

(***************************************************************************)
(* Values.                                                                 *)
(***************************************************************************)
MISSING == "<missing>"

\* Python None, an unbound local, and "the call did not return"
None == [kind |-> "None"]
Unbound == [kind |-> "Unbound"]
NoReturn == [kind |-> "NoReturn"]
NoElapsed == 0 - 1

\* statuses the remote service may report, in the letter cases it may use
NonTerminalStatuses == {"pending", "Running"}
SuccessReports == {"completed", "Completed", "finished", "SUCCESS"}
FailureReports == {"failed", "FAILED", "error", "cancelled", "Cancelled",
                   "aborted", "timeout"}
Statuses == NonTerminalStatuses \cup SuccessReports \cup FailureReports
Progresses == {MISSING, "50%"}

ExecutionRecords ==
    [kind : {"record"}, status : Statuses \cup {MISSING}, progress : Progresses]

\* what client.action_executions.get_by_id can do: return a record, return
\* nothing (None or an empty dict), or raise an exception
FetchError == [kind |-> "error"]
Responses == ExecutionRecords \cup {None, FetchError}

\* str.lower() on the statuses of the model
Lower(s) ==
    CASE s = "Running" -> "running"
      [] s = "Completed" -> "completed"
      [] s = "SUCCESS" -> "success"
      [] s = "FAILED" -> "failed"
      [] s = "Cancelled" -> "cancelled"
      [] s = "Unknown" -> "unknown"
      [] s = "Not Found" -> "not found"
      [] s = "Error: e" -> "error: e"
      [] OTHER -> s

\* dict.get(key, default)
DictGet(value, default) == IF value = MISSING THEN default ELSE value

\* execution.get('status', 'Unknown'), execution.get('progress', 'N/A')
GetStatus(rec) == DictGet(rec.status, "Unknown")
GetProgress(rec) == DictGet(rec.progress, "N/A")

\* the literal ['completed', 'finished', 'success'] of the three pollers
SuccessList == {"completed", "finished", "success"}

\* is_terminal_status with 'aborted' left out of the list
is_terminal_status_NoAborted(s) ==
    Lower(s) \in {"completed", "finished", "success", "failed",
                  "error", "cancelled", "timeout"}

\* ExecutionMonitor.is_terminal_status
is_terminal_status(s) ==
    Lower(s) \in {"completed", "finished", "success", "failed",
                  "error", "cancelled", "aborted", "timeout"}

\* the completion test of monitor_execution with 'success' left out
IsCompleteE_NoSuccess(s) ==
    Lower(s) \in {"completed", "finished", "failed", "error"}

\* the completion test of execute_action.monitor_execution
IsCompleteE(s) ==
    Lower(s) \in {"completed", "finished", "success", "failed", "error"}

\* the completion test of ActionWorkflow.step_3_monitor_execution
IsCompleteW(s) ==
    Lower(s) \in {"completed", "finished", "success", "failed", "error",
                  "cancelled"}

IsSuccess(s) == Lower(s) \in SuccessList

\* get_current_status reporting a failed fetch as the status 'error'
get_current_status_ErrorIsTerminal(resp) ==
    IF resp.kind = "record"
    THEN [execution |-> resp, status |-> GetStatus(resp),
          progress |-> GetProgress(resp)]
    ELSE [execution |-> None, status |-> "error", progress |-> "N/A"]

\* ExecutionMonitor.get_current_status: (execution, status, progress)
get_current_status(resp) ==
    IF resp.kind = "record"
    THEN [execution |-> resp, status |-> GetStatus(resp),
          progress |-> GetProgress(resp)]
    ELSE IF resp = None
    THEN [execution |-> None, status |-> "Not Found", progress |-> "N/A"]
    ELSE [execution |-> None, status |-> "Error: e", progress |-> "N/A"]

\* the timeout test with the comparison turned round
TimedOutM_Inverted(elapsed, maxd) == elapsed < maxd

\* the timeout test of ExecutionMonitor.monitor
TimedOutM(elapsed, maxd) == elapsed > maxd

\* the loop condition of monitor_execution and step_3_monitor_execution
WithinWait(elapsed, maxw) == elapsed < maxw

\* check_interval of monitor_execution and step_3_monitor_execution, and
\* the default check_interval of ExecutionMonitor.monitor
CHECK_INTERVAL == 5

\* the intervals monitor() is called with: the default and shorter ones
MonitorIntervals == (CHECK_INTERVAL - MaxIntervalCut)..CHECK_INTERVAL

(***************************************************************************)
(* State of one poller run.                                                *)
(***************************************************************************)
VARIABLES
    poller,          \* "M" monitor, "E" monitor_execution, "W" step_3
    pc,              \* "check", "fetch", "sleep", "return", "done"
    now,             \* the clock, in seconds
    start_time,      \* self.start_time / start_time
    max_duration,    \* max_duration / max_wait_time
    check_interval,
    fetch_latency,   \* seconds one get_by_id call takes
    execution,       \* local execution / execution_details
    status,          \* local status
    progress,        \* local progress
    elapsed_time,    \* local elapsed_time of monitor()
    retval,          \* value returned to the caller
    raised,          \* exception that left the poller, or "none"
    printed,         \* kinds of messages printed
    fetches,         \* number of get_by_id calls made
    sleeps,          \* number of time.sleep calls made
    lastFetched,     \* response of the latest get_by_id call
    fetchFailed,     \* some get_by_id call raised or returned nothing
    onlyRunning,     \* every get_by_id call so far reported "running"
    firstTerminalAt, \* index of the first fetch reporting a terminal status
    interrupted,     \* a KeyboardInterrupt was raised in the loop
    last_status,     \* self.last_status / local last_status of step_3
    last_progress,   \* self.last_progress
    status_history   \* self.status_history / self.execution_history

pollVars == <<poller, pc, now, start_time, max_duration, check_interval,
              fetch_latency, execution, status, progress, elapsed_time,
              retval, raised, printed, fetches, sleeps, lastFetched,
              fetchFailed, onlyRunning, firstTerminalAt, interrupted,
              last_status, last_progress, status_history>>

\* the status bookkeeping of ExecutionMonitor and of step_3
monVars == <<last_status, last_progress, status_history>>

(***************************************************************************)
(* State of one ETLPipeline instance and of its run_pipeline call.         *)
(***************************************************************************)
VARIABLES
    epc,                    \* "idle", "extract", "transform", "load", "done"
    pipeline_config,        \* sources, transformations, target type
    self_steps,             \* self.steps
    self_status,            \* self.status
    extraction_results,
    transformation_results,
    load_results,
    idx,                    \* position of the loop over the stage's items
    tj,                     \* position of the loop over the transformations
    summary,                \* value returned by run_pipeline
    escaped,                \* an exception reached run_pipeline's handler
    extractLog,             \* what happened to each source, in order
    attempted,              \* the items whose loop body was entered, in order
    callLog,                \* the remote calls of this run: start and end
    runs                    \* run_pipeline calls made on this instance

etlVars == <<epc, pipeline_config, self_steps, self_status,
             extraction_results, transformation_results, load_results,
             idx, tj, summary, escaped, extractLog, attempted, callLog,
             runs>>

(***************************************************************************)
(* State of a main() of the action scripts, around its poller.             *)
(***************************************************************************)
VARIABLES
    exit_code,     \* value returned by main(); NoExit while it has not
    downloads      \* the download_package calls made, in order

mainVars == <<exit_code, downloads>>

(***************************************************************************)
(* State of one use of managed_client (client_manager.py).                 *)
(***************************************************************************)
VARIABLES
    cm_pc,         \* "none", "enter", "construct", "body", "finally", "left"
    cm_args,       \* the arguments and the environment variables
    cm_client,     \* the local client: "None" or "client"
    close_calls,   \* number of client.close() calls made
    body_exc,      \* what the body of the with statement raised
    leaving,       \* the exception that leaves the with statement
    cm_warned      \* the close failure warning was printed

cmVars == <<cm_pc, cm_args, cm_client, close_calls, body_exc, leaving,
            cm_warned>>

(***************************************************************************)
(* State of one run of projects/delete_project.py.                         *)
(***************************************************************************)
VARIABLES
    del_pc,           \* "none", "main", "backup", "confirm", "delete", "done"
    del_args,         \* the command line flags
    via_main,         \* delete_project is reached through main()
    dependencies,     \* main's dependencies
    dp_dependencies,  \* the dependencies local to delete_project
    backup_path,      \* main's backup_path: "None" or "path"
    backup_state,     \* "not_run", "written", "failed"
    typed,            \* what the operator entered at the prompts, in order
    delete_calls,     \* number of client.projects.delete calls made
    del_result        \* what delete_project returned: "none" before

delVars == <<del_pc, del_args, via_main, dependencies, dp_dependencies,
             backup_path, backup_state, typed, delete_calls, del_result>>

(***************************************************************************)
(* State of one call of list_all_investigations or list_all_dashboards, or *)
(* of the fetch loop of search_investigations.                             *)
(***************************************************************************)
VARIABLES
    pg_pc,         \* "none", "loop", "done", "raised"
    pg_kind,       \* "investigations", "dashboards" or "search"
    service,       \* the pages the service holds and the totals it reports
    max_pages,     \* the argument max_pages
    page,          \* the local page
    all_items,     \* all_investigations / all_dashboards
    fetchLog,      \* the page numbers requested with get_all, in order
    max_results,   \* the argument max_results of search_investigations
    pg_response    \* the local response: what the last get_all gave

pageVars ==
    <<pg_pc, pg_kind, service, max_pages, page, all_items, fetchLog,
      max_results, pg_response>>

(***************************************************************************)
(* State of one call of discover_projects (projects/api_utils.py).         *)
(***************************************************************************)
VARIABLES
    ds_pc,          \* "none", "listing", "select", "done"
    needed_count,   \* the argument needed_count
    listing,        \* what the listing of the projects does
    projects,       \* the local projects
    ds_result       \* what discover_projects returned

discVars == <<ds_pc, needed_count, listing, projects, ds_result>>

\* the variables of the other parts of the model
sideVars == <<cmVars, delVars, pageVars, discVars>>
nonPollVars == <<etlVars, mainVars, sideVars>>
nonEtlVars == <<pollVars, mainVars, sideVars>>
nonScriptVars == <<etlVars, sideVars>>
nonCmVars == <<pollVars, etlVars, mainVars, delVars, pageVars, discVars>>
nonDelVars == <<pollVars, etlVars, mainVars, cmVars, pageVars, discVars>>
nonPageVars == <<pollVars, etlVars, mainVars, cmVars, delVars, discVars>>
nonDiscVars == <<pollVars, etlVars, mainVars, cmVars, delVars, pageVars>>

vars == <<pollVars, etlVars, mainVars, sideVars>>

\* the terminal status set of the specification, case-insensitive
SpecSuccess == {"completed", "finished", "success"}
SpecFailure == {"failed", "error", "cancelled", "aborted", "timeout"}
ReportsSuccess(resp) ==
    resp.kind = "record" /\ Lower(GetStatus(resp)) \in SpecSuccess
ReportsFailure(resp) ==
    resp.kind = "record" /\ Lower(GetStatus(resp)) \in SpecFailure
ReportsTerminal(resp) == ReportsSuccess(resp) \/ ReportsFailure(resp)

PollInit ==
    /\ poller \in {"M", "E", "W"}
    /\ pc = "check"
    /\ max_duration \in 1..MaxDuration
    /\ check_interval \in
         IF poller = "M" THEN MonitorIntervals ELSE {CHECK_INTERVAL}
    /\ fetch_latency \in 0..MaxLatency
    \* ExecutionMonitor.__init__ reads the clock; monitor() is called later.
    \* The other two pollers read the clock on entry.
    /\ start_time = 0
    /\ now \in IF poller = "M" THEN 0..MaxDelay ELSE {0}
    /\ execution = Unbound
    /\ status = "<unbound>"
    /\ progress = "<unbound>"
    /\ elapsed_time = NoElapsed
    /\ retval = NoReturn
    /\ raised = "none"
    /\ printed = {}
    /\ fetches = 0
    /\ sleeps = 0
    /\ lastFetched = Unbound
    /\ fetchFailed = FALSE
    /\ onlyRunning = TRUE
    /\ firstTerminalAt = 0
    /\ interrupted = FALSE
    /\ last_status = "<None>"
    /\ last_progress = "<None>"
    /\ status_history = <<>>

\* display_status_update recording every poll, changed or not
display_status_update_AlwaysAppend(st, pr) ==
    /\ status_history' = Append(status_history, st)
    /\ last_status' = st
    /\ last_progress' = pr

\* ExecutionMonitor.display_status_update: a status that differs from
\* last_status is appended to status_history (the entry is kept by its
\* status); last_status and last_progress are updated
display_status_update(st, pr) ==
    /\ status_history' =
         IF st # last_status THEN Append(status_history, st)
         ELSE status_history
    /\ last_status' = st
    /\ last_progress' = pr

\* step_3_monitor_execution: a status that differs from last_status is
\* appended to self.execution_history
RecordStatusChange(st) ==
    /\ status_history' =
         IF st # last_status THEN Append(status_history, st)
         ELSE status_history
    /\ last_status' = st
    /\ last_progress' = last_progress

\* bookkeeping of one get_by_id call
Fetched(resp) ==
    /\ fetches < FetchCap
    /\ fetches' = fetches + 1
    /\ now' = now + fetch_latency
    /\ lastFetched' = resp
    /\ fetchFailed' = (fetchFailed \/ resp.kind # "record")
    /\ onlyRunning' = (onlyRunning /\ resp.kind = "record"
                                   /\ Lower(GetStatus(resp)) = "running")
    /\ firstTerminalAt' =
         IF firstTerminalAt = 0 /\ ReportsTerminal(resp)
         THEN fetches + 1 ELSE firstTerminalAt

(***************************************************************************)
(* ExecutionMonitor.monitor                                                *)
(***************************************************************************)
\* top of the loop: read the clock, test the timeout
M_Check ==
    /\ poller = "M" /\ pc = "check"
    /\ elapsed_time' = now - start_time
    /\ IF TimedOutM(now - start_time, max_duration)
       THEN /\ printed' = printed \cup {"timeout"}
            /\ pc' = "return"
       ELSE /\ printed' = printed
            /\ pc' = "fetch"
    /\ UNCHANGED nonPollVars
    /\ UNCHANGED monVars
    /\ UNCHANGED <<poller, now, start_time, max_duration, check_interval,
                   fetch_latency, execution, status, progress, retval,
                   raised, fetches, sleeps, lastFetched, fetchFailed, onlyRunning,
                   firstTerminalAt, interrupted>>

\* get_current_status, display_status_update, the terminal test
M_Fetch ==
    /\ poller = "M" /\ pc = "fetch"
    /\ \E resp \in Responses :
         LET r == get_current_status(resp) IN
         /\ Fetched(resp)
         /\ execution' = r.execution
         /\ status' = r.status
         /\ progress' = r.progress
         /\ display_status_update(r.status, r.progress)
         /\ IF is_terminal_status(r.status)
            THEN /\ printed' = printed \cup
                      {IF IsSuccess(r.status) THEN "success" ELSE "failure"}
                 /\ pc' = "return"
            ELSE /\ printed' = printed
                 /\ pc' = "sleep"
    /\ UNCHANGED nonPollVars
    /\ UNCHANGED <<poller, start_time, max_duration, check_interval,
                   fetch_latency, elapsed_time, retval, raised, sleeps,
                   interrupted>>

\* time.sleep(check_interval)
M_Sleep ==
    /\ poller = "M" /\ pc = "sleep"
    /\ sleeps < FetchCap
    /\ sleeps' = sleeps + 1
    /\ now' = now + check_interval
    /\ pc' = "check"
    /\ UNCHANGED nonPollVars
    /\ UNCHANGED monVars
    /\ UNCHANGED <<poller, start_time, max_duration, check_interval,
                   fetch_latency, execution, status, progress, elapsed_time,
                   retval, raised, printed, fetches, lastFetched, fetchFailed, onlyRunning,
                   firstTerminalAt, interrupted>>

\* except KeyboardInterrupt: the loop is left, the summary follows
M_Interrupt ==
    /\ poller = "M" /\ pc \in {"check", "fetch", "sleep"}
    /\ interrupted' = TRUE
    /\ printed' = printed \cup {"interrupted"}
    /\ pc' = "return"
    /\ UNCHANGED nonPollVars
    /\ UNCHANGED monVars
    /\ UNCHANGED <<poller, now, start_time, max_duration, check_interval,
                   fetch_latency, execution, status, progress, elapsed_time,
                   retval, raised, fetches, sleeps, lastFetched, fetchFailed, onlyRunning,
                   firstTerminalAt>>

\* show_monitoring_summary(elapsed_time); return execution, status, progress
M_Return ==
    /\ poller = "M" /\ pc = "return"
    /\ IF elapsed_time = NoElapsed \/ execution = Unbound
       THEN /\ raised' = "UnboundLocalError"
            /\ retval' = NoReturn
       ELSE /\ raised' = raised
            /\ retval' = [kind |-> "triple", execution |-> execution,
                          status |-> status, progress |-> progress]
    /\ pc' = "done"
    /\ UNCHANGED nonPollVars
    /\ UNCHANGED monVars
    /\ UNCHANGED <<poller, now, start_time, max_duration, check_interval,
                   fetch_latency, execution, status, progress, elapsed_time,
                   printed, fetches, sleeps, lastFetched, fetchFailed, onlyRunning,
                   firstTerminalAt, interrupted>>

(***************************************************************************)
(* execute_action.monitor_execution                                        *)
(***************************************************************************)
\* while time.time() - start_time < max_wait_time; after the loop the
\* timeout message is printed and None is returned
E_Check ==
    /\ poller = "E" /\ pc = "check"
    /\ IF WithinWait(now - start_time, max_duration)
       THEN /\ pc' = "fetch"
            /\ UNCHANGED <<printed, retval>>
       ELSE /\ printed' = printed \cup {"timeout"}
            /\ retval' = None
            /\ pc' = "done"
    /\ UNCHANGED nonPollVars
    /\ UNCHANGED monVars
    /\ UNCHANGED <<poller, now, start_time, max_duration, check_interval,
                   fetch_latency, execution, status, progress, elapsed_time,
                   raised, fetches, sleeps, lastFetched, fetchFailed,
                   onlyRunning, firstTerminalAt, interrupted>>

\* monitor_execution going on to the next poll after a failed fetch
E_Fetch_KeepsPolling ==
    /\ poller = "E" /\ pc = "fetch"
    /\ \E resp \in Responses :
         /\ Fetched(resp)
         /\ IF resp.kind = "record" /\ IsCompleteE(GetStatus(resp))
            THEN /\ printed' = printed \cup
                      {IF IsSuccess(GetStatus(resp))
                       THEN "success" ELSE "failure"}
                 /\ retval' = resp
                 /\ pc' = "done"
            ELSE /\ UNCHANGED <<printed, retval>>
                 /\ pc' = "sleep"
         /\ execution' = IF resp.kind = "record" THEN resp ELSE execution
         /\ status' = IF resp.kind = "record" THEN GetStatus(resp) ELSE status
         /\ progress' =
              IF resp.kind = "record" THEN GetProgress(resp) ELSE progress
    /\ UNCHANGED nonPollVars
    /\ UNCHANGED monVars
    /\ UNCHANGED <<poller, start_time, max_duration, check_interval,
                   fetch_latency, elapsed_time, raised, sleeps, interrupted>>

\* get_by_id inside try/except Exception; a falsy record or an exception
\* breaks out of the loop to the timeout message and return None
E_Fetch ==
    /\ poller = "E" /\ pc = "fetch"
    /\ \E resp \in Responses :
         /\ Fetched(resp)
         /\ IF resp.kind = "record"
            THEN /\ execution' = resp
                 /\ status' = GetStatus(resp)
                 /\ progress' = GetProgress(resp)
                 /\ IF IsCompleteE(GetStatus(resp))
                    THEN /\ printed' = printed \cup
                              {IF IsSuccess(GetStatus(resp))
                               THEN "success" ELSE "failure"}
                         /\ retval' = resp
                         /\ pc' = "done"
                    ELSE /\ UNCHANGED <<printed, retval>>
                         /\ pc' = "sleep"
            ELSE /\ execution' = IF resp = None THEN None ELSE execution
                 /\ UNCHANGED <<status, progress>>
                 /\ printed' = printed \cup {"fetch_failed", "timeout"}
                 /\ retval' = None
                 /\ pc' = "done"
    /\ UNCHANGED nonPollVars
    /\ UNCHANGED monVars
    /\ UNCHANGED <<poller, start_time, max_duration, check_interval,
                   fetch_latency, elapsed_time, raised, sleeps, interrupted>>

\* time.sleep(check_interval)
E_Sleep ==
    /\ poller = "E" /\ pc = "sleep"
    /\ sleeps < FetchCap
    /\ sleeps' = sleeps + 1
    /\ now' = now + check_interval
    /\ pc' = "check"
    /\ UNCHANGED nonPollVars
    /\ UNCHANGED monVars
    /\ UNCHANGED <<poller, start_time, max_duration, check_interval,
                   fetch_latency, execution, status, progress, elapsed_time,
                   retval, raised, printed, fetches, lastFetched,
                   fetchFailed, onlyRunning, firstTerminalAt, interrupted>>

\* no handler for KeyboardInterrupt: it leaves monitor_execution
E_Interrupt ==
    /\ poller = "E" /\ pc \in {"check", "fetch", "sleep"}
    /\ interrupted' = TRUE
    /\ raised' = "KeyboardInterrupt"
    /\ pc' = "done"
    /\ UNCHANGED nonPollVars
    /\ UNCHANGED monVars
    /\ UNCHANGED <<poller, now, start_time, max_duration, check_interval,
                   fetch_latency, execution, status, progress, elapsed_time,
                   retval, printed, fetches, sleeps, lastFetched,
                   fetchFailed, onlyRunning, firstTerminalAt>>

(***************************************************************************)
(* ActionWorkflow.step_3_monitor_execution                                 *)
(***************************************************************************)
\* while (datetime.now() - start_time).total_seconds() < max_wait_time
W_Check ==
    /\ poller = "W" /\ pc = "check"
    /\ IF WithinWait(now - start_time, max_duration)
       THEN /\ pc' = "fetch"
            /\ UNCHANGED <<printed, retval>>
       ELSE /\ printed' = printed \cup {"timeout"}
            /\ retval' = None
            /\ pc' = "done"
    /\ UNCHANGED nonPollVars
    /\ UNCHANGED monVars
    /\ UNCHANGED <<poller, now, start_time, max_duration, check_interval,
                   fetch_latency, execution, status, progress, elapsed_time,
                   raised, fetches, sleeps, lastFetched, fetchFailed,
                   onlyRunning, firstTerminalAt, interrupted>>

\* get_by_id; a falsy record breaks to the timeout message, an exception
\* is caught by the outer except Exception; both return None
W_Fetch ==
    /\ poller = "W" /\ pc = "fetch"
    /\ \E resp \in Responses :
         /\ Fetched(resp)
         /\ IF resp.kind = "record"
            THEN /\ execution' = resp
                 /\ status' = GetStatus(resp)
                 /\ progress' = GetProgress(resp)
                 /\ RecordStatusChange(GetStatus(resp))
                 /\ IF IsCompleteW(GetStatus(resp))
                    THEN /\ printed' = printed \cup
                              {IF IsSuccess(GetStatus(resp))
                               THEN "success" ELSE "failure"}
                         /\ retval' = resp
                         /\ pc' = "done"
                    ELSE /\ UNCHANGED <<printed, retval>>
                         /\ pc' = "sleep"
            ELSE /\ execution' = IF resp = None THEN None ELSE execution
                 /\ UNCHANGED <<status, progress>>
                 /\ UNCHANGED monVars
                 /\ printed' = printed \cup
                      (IF resp = None THEN {"fetch_failed", "timeout"}
                       ELSE {"monitoring_failed"})
                 /\ retval' = None
                 /\ pc' = "done"
    /\ UNCHANGED nonPollVars
    /\ UNCHANGED <<poller, start_time, max_duration, check_interval,
                   fetch_latency, elapsed_time, raised, sleeps, interrupted>>

\* time.sleep(check_interval)
W_Sleep ==
    /\ poller = "W" /\ pc = "sleep"
    /\ sleeps < FetchCap
    /\ sleeps' = sleeps + 1
    /\ now' = now + check_interval
    /\ pc' = "check"
    /\ UNCHANGED nonPollVars
    /\ UNCHANGED monVars
    /\ UNCHANGED <<poller, start_time, max_duration, check_interval,
                   fetch_latency, execution, status, progress, elapsed_time,
                   retval, raised, printed, fetches, lastFetched,
                   fetchFailed, onlyRunning, firstTerminalAt, interrupted>>

\* except KeyboardInterrupt: return None
W_Interrupt ==
    /\ poller = "W" /\ pc \in {"check", "fetch", "sleep"}
    /\ interrupted' = TRUE
    /\ printed' = printed \cup {"interrupted"}
    /\ retval' = None
    /\ pc' = "done"
    /\ UNCHANGED nonPollVars
    /\ UNCHANGED monVars
    /\ UNCHANGED <<poller, now, start_time, max_duration, check_interval,
                   fetch_latency, execution, status, progress, elapsed_time,
                   raised, fetches, sleeps, lastFetched, fetchFailed,
                   onlyRunning, firstTerminalAt>>

PollNext ==
    \/ M_Check \/ M_Fetch \/ M_Sleep \/ M_Interrupt \/ M_Return
    \/ E_Check \/ E_Fetch \/ E_Sleep \/ E_Interrupt
    \/ W_Check \/ W_Fetch \/ W_Sleep \/ W_Interrupt

(***************************************************************************)
(* The main() functions of monitor_action_execution.py, execute_action.py  *)
(* and action_execution_workflow.py, and download_execution_package.       *)
(***************************************************************************)
NoExit == 0 - 1

\* status.lower() not in ['completed', 'finished', 'success'] skips the
\* download (step_5_download_package, download_execution_package)
CanDownload_AnyTerminal(s) == is_terminal_status(s)
CanDownload(s) == Lower(s) \in SuccessList

\* what client.action_executions.download_package can do
PackageResponses == {"data", "nothing", "raises"}

\* the ways a main() ends before its poller is called: no project, no id
\* entered or found, the execute request fails or returns nothing; in
\* execute_action.py also a result without 'executionId', which is returned
\* without monitoring
EarlyOutcomes(p) ==
    IF p = "E" THEN {"no_projects", "execute_failed", "sync_result"}
    ELSE IF p = "W" THEN {"no_projects", "execute_failed", "no_execution_id"}
    ELSE {"no_projects", "no_id", "execution_not_found"}

EarlyExit(p, outcome) == IF p = "E" /\ outcome = "sync_result" THEN 0 ELSE 1

Main_NoPolling ==
    /\ poller \in {"M", "E", "W"}
    /\ pc = "check" /\ fetches = 0 /\ sleeps = 0
    /\ \E outcome \in EarlyOutcomes(poller) :
         exit_code' = EarlyExit(poller, outcome)
    /\ pc' = "exited"
    /\ UNCHANGED downloads
    /\ UNCHANGED nonScriptVars
    /\ UNCHANGED monVars
    /\ UNCHANGED <<poller, now, start_time, max_duration, check_interval,
                   fetch_latency, execution, status, progress, elapsed_time,
                   retval, raised, printed, fetches, sleeps, lastFetched,
                   fetchFailed, onlyRunning, firstTerminalAt, interrupted>>

\* monitor_action_execution.main: an exception out of monitor() returns 1,
\* everything else falls through to return 0
M_Main ==
    /\ poller = "M" /\ pc = "done"
    /\ exit_code' = IF raised # "none" THEN 1 ELSE 0
    /\ pc' = "exited"
    /\ UNCHANGED downloads
    /\ UNCHANGED nonScriptVars
    /\ UNCHANGED monVars
    /\ UNCHANGED <<poller, now, start_time, max_duration, check_interval,
                   fetch_latency, execution, status, progress, elapsed_time,
                   retval, raised, printed, fetches, sleeps, lastFetched,
                   fetchFailed, onlyRunning, firstTerminalAt, interrupted>>

\* execute_action.main: if result: ... return 0, else return 1; a
\* KeyboardInterrupt is not an Exception and leaves main
E_Main ==
    /\ poller = "E" /\ pc = "done"
    /\ exit_code' = IF raised = "KeyboardInterrupt" THEN NoExit
                     ELSE IF retval.kind = "record" THEN 0 ELSE 1
    /\ pc' = "exited"
    /\ UNCHANGED downloads
    /\ UNCHANGED nonScriptVars
    /\ UNCHANGED monVars
    /\ UNCHANGED <<poller, now, start_time, max_duration, check_interval,
                   fetch_latency, execution, status, progress, elapsed_time,
                   retval, raised, printed, fetches, sleeps, lastFetched,
                   fetchFailed, onlyRunning, firstTerminalAt, interrupted>>

\* run_complete_workflow after step 3 and main's return 0 if success else 1:
\* step_4_analyze_results, then step_5_download_package
W_Main ==
    /\ poller = "W" /\ pc = "done"
    /\ IF retval.kind = "record"
       THEN /\ exit_code' = IF IsSuccess(GetStatus(retval)) THEN 0 ELSE 1
            /\ IF CanDownload(GetStatus(retval))
               THEN \E pkg \in PackageResponses :
                      downloads' = Append(downloads,
                          [by |-> "W", status |-> GetStatus(retval),
                           package |-> pkg])
               ELSE downloads' = downloads
       ELSE /\ exit_code' = 1
            /\ downloads' = downloads
    /\ pc' = "exited"
    /\ UNCHANGED nonScriptVars
    /\ UNCHANGED monVars
    /\ UNCHANGED <<poller, now, start_time, max_duration, check_interval,
                   fetch_latency, execution, status, progress, elapsed_time,
                   retval, raised, printed, fetches, sleeps, lastFetched,
                   fetchFailed, onlyRunning, firstTerminalAt, interrupted>>

\* download_execution_package: get_by_id, then the status test
D_GetById ==
    /\ poller = "D" /\ pc = "fetch"
    /\ \E resp \in Responses :
         /\ Fetched(resp)
         /\ IF resp.kind = "record"
            THEN /\ execution' = resp
                 /\ status' = GetStatus(resp)
                 /\ IF CanDownload(GetStatus(resp))
                    THEN /\ printed' = printed \cup {"success"}
                         /\ retval' = retval
                         /\ pc' = "download"
                    ELSE /\ printed' = printed \cup {"not_completed"}
                         /\ retval' = None
                         /\ pc' = "done"
            ELSE /\ execution' = IF resp = None THEN None ELSE execution
                 /\ status' = status
                 /\ printed' = printed \cup
                      {IF resp = None THEN "not_found" ELSE "failed"}
                 /\ retval' = None
                 /\ pc' = "done"
    /\ UNCHANGED mainVars
    /\ UNCHANGED nonScriptVars
    /\ UNCHANGED monVars
    /\ UNCHANGED <<poller, start_time, max_duration, check_interval,
                   fetch_latency, progress, elapsed_time, raised, sleeps,
                   interrupted>>

\* download_execution_package: download_package, then save_package
D_DownloadPackage ==
    /\ poller = "D" /\ pc = "download"
    /\ \E pkg \in PackageResponses :
         /\ downloads' = Append(downloads,
                [by |-> "D", status |-> status, package |-> pkg])
         /\ retval' = IF pkg = "data" THEN [kind |-> "path"] ELSE None
         /\ printed' = printed \cup {pkg}
    /\ pc' = "done"
    /\ UNCHANGED exit_code
    /\ UNCHANGED nonScriptVars
    /\ UNCHANGED monVars
    /\ UNCHANGED <<poller, now, start_time, max_duration, check_interval,
                   fetch_latency, execution, status, progress, elapsed_time,
                   raised, fetches, sleeps, lastFetched, fetchFailed,
                   onlyRunning, firstTerminalAt, interrupted>>

MainNext ==
    \/ Main_NoPolling \/ M_Main \/ E_Main \/ W_Main
    \/ D_GetById \/ D_DownloadPackage

(***************************************************************************)
(* ETLPipeline (workflows/etl_pipeline.py).  Line 126 of the file holds    *)
(* the rest of the class with its line ends written as the two characters  *)
(* backslash-n; it is read here as the lines it spells.                    *)
(***************************************************************************)
\* the default of dataset.get('record_count', 1000)
DEFAULT_RECORD_COUNT == 1000

RecordCounts == {2000, 5000}

\* what client.datasets.create can do: raise, or return a dataset whose
\* record_count is a number, is absent, or is null
CreateOutcomes ==
    {[kind |-> "raise", rc_kind |-> "none", record_count |-> 0]}
    \cup [kind : {"dataset"}, rc_kind : {"int"}, record_count : RecordCounts]
    \cup [kind : {"dataset"}, rc_kind : {"missing", "null"},
          record_count : {0}]

\* client.enrichment.enrich_dataset returns a result or raises
EnrichOutcomes == {"ok", "raise"}

SeqsUpTo(S, n) == UNION {[1..k -> S] : k \in 0..n}

\* a source descriptor is a dict, or (from a JSON config file) is not one
SourceKinds == {"dict", "malformed"}
TransformTypes == {"enrichment", "validation"}
TargetTypes == {"dataset", "file"}

NoDataset == [dataset_id |-> 0, rc_kind |-> "none", record_count |-> 0]
MkDataset(id, out) ==
    [dataset_id |-> id, rc_kind |-> out.rc_kind,
     record_count |-> out.record_count]

\* dataset.get('record_count', 1000)
record_count_of(ds) ==
    IF ds.rc_kind = "missing" THEN DEFAULT_RECORD_COUNT ELSE ds.record_count

EmptyExtract ==
    [step |-> "extract", sources_processed |-> 0, total_records |-> 0,
     datasets_created |-> <<>>]
EmptyTransform ==
    [step |-> "transform", datasets_processed |-> 0,
     transformations_applied |-> 0, quality_checks_passed |-> 0,
     enriched_datasets |-> <<>>]
EmptyLoad ==
    [step |-> "load", datasets_loaded |-> 0, total_records_loaded |-> 0,
     target_datasets |-> <<>>]

\* the try block of extract_data for one source: the dataset is appended,
\* then its record count is added, then the source is counted; an exception
\* leaves the block where it is raised
ExtractOne(res, id, out) ==
    IF out.kind = "raise" THEN res
    ELSE IF out.rc_kind = "null"
    THEN [res EXCEPT !.datasets_created = Append(@, MkDataset(id, out))]
    ELSE [res EXCEPT
            !.datasets_created = Append(@, MkDataset(id, out)),
            !.total_records = @ + record_count_of(MkDataset(id, out)),
            !.sources_processed = @ + 1]

\* the try block of load_data for one dataset
LoadOne(res, id, out) ==
    IF out.kind = "raise" THEN res
    ELSE IF out.rc_kind = "null"
    THEN [res EXCEPT !.target_datasets = Append(@, MkDataset(id, out))]
    ELSE [res EXCEPT
            !.target_datasets = Append(@, MkDataset(id, out)),
            !.total_records_loaded = @ + record_count_of(MkDataset(id, out)),
            !.datasets_loaded = @ + 1]

\* the source's try block raised
ItemFailed(out) == out.kind = "raise" \/ out.rc_kind = "null"

\* step.get('total_records', 0)
TotalRecordsOf(step) ==
    IF "total_records" \in DOMAIN step THEN step.total_records ELSE 0

\* sum(step.get('total_records', 0) for step in self.steps)
RECURSIVE SumTotalRecords(_)
SumTotalRecords(steps) ==
    IF steps = <<>> THEN 0
    ELSE TotalRecordsOf(Head(steps)) + SumTotalRecords(Tail(steps))

\* a summary status that depends on the items that failed
SummaryStatus_FailOnItemFailure(ext, trf, ld) ==
    IF ext.sources_processed < Len(ext.datasets_created)
       \/ trf.datasets_processed < Len(ext.datasets_created)
       \/ ld.datasets_loaded < Len(ld.target_datasets)
    THEN "failed" ELSE "completed"

\* the "status" of the summary run_pipeline builds after the three stages,
\* which is also what self.status is set to
SummaryStatus(ext, trf, ld) == "completed"

\* pipeline_summary
PipelineSummary(steps, ext, trf, ld) ==
    [status |-> SummaryStatus(ext, trf, ld),
     steps_completed |-> Len(steps),
     total_records_processed |-> SumTotalRecords(steps),
     final_datasets |-> ld.target_datasets]

\* the dict returned by run_pipeline's except Exception handler
FailureSummary(steps) ==
    [status |-> "failed", steps_completed |-> Len(steps),
     total_records_processed |-> 0, final_datasets |-> <<>>]

NoSummary ==
    [status |-> "none", steps_completed |-> 0,
     total_records_processed |-> 0, final_datasets |-> <<>>]

\* ETLPipeline.__init__, and the configuration handed to run_pipeline
EtlInit ==
    /\ epc = "idle"
    /\ pipeline_config \in
         [sources : SeqsUpTo(SourceKinds, MaxSources),
          transformations : SeqsUpTo(TransformTypes, MaxTransforms),
          target_type : TargetTypes]
    /\ self_steps = <<>>
    /\ self_status = "initialized"
    /\ extraction_results = EmptyExtract
    /\ transformation_results = EmptyTransform
    /\ load_results = EmptyLoad
    /\ idx = 1
    /\ tj = 1
    /\ summary = NoSummary
    /\ escaped = FALSE
    /\ extractLog = <<>>
    /\ attempted = <<>>
    /\ callLog = <<>>
    /\ runs = 0

\* a synchronous remote call made by the stage: it starts and it ends
\* (returns or raises) before the caller goes on
RemoteCall(stage) == <<[stage |-> stage, event |-> "start"],
                      [stage |-> stage, event |-> "end"]>>

\* the order of the stages with load_data called before transform_data
StageAfter_LoadFirst(stage) ==
    CASE stage = "extract" -> "load"
      [] stage = "load" -> "transform"
      [] stage = "transform" -> "done"

\* run_pipeline: extract_data, then transform_data, then load_data, then
\* the summary
StageAfter(stage) ==
    CASE stage = "extract" -> "transform"
      [] stage = "transform" -> "load"
      [] stage = "load" -> "done"

\* run_pipeline up to the call of extract_data; self.steps is kept
EnterRunPipeline ==
    /\ runs' = runs + 1
    /\ self_status' = "running"
    /\ extraction_results' = EmptyExtract
    /\ idx' = 1
    /\ tj' = 1
    /\ epc' = "extract"
    /\ summary' = NoSummary
    /\ escaped' = FALSE
    /\ extractLog' = <<>>
    /\ attempted' = <<>>
    /\ callLog' = <<>>
    /\ UNCHANGED <<pipeline_config, self_steps, transformation_results,
                   load_results>>
    /\ UNCHANGED nonEtlVars

\* the first run_pipeline call on the instance
RunPipelineStart ==
    /\ epc = "idle"
    /\ EnterRunPipeline

\* a further run_pipeline call on the same instance
RunPipelineAgain ==
    /\ epc = "done"
    /\ runs < MaxRuns
    /\ EnterRunPipeline

\* one pass of the loop of extract_data; source.get() before the try block
\* raises on a source that is not a dict, and that exception reaches
\* run_pipeline's handler
ExtractItem ==
    /\ epc = "extract" /\ idx <= Len(pipeline_config.sources)
    /\ attempted' = Append(attempted, <<"extract", idx, 0>>)
    /\ IF pipeline_config.sources[idx] = "malformed"
       THEN /\ escaped' = TRUE
            /\ self_status' = "failed"
            /\ summary' = FailureSummary(self_steps)
            /\ epc' = "done"
            /\ UNCHANGED <<extraction_results, idx, extractLog, callLog>>
       ELSE /\ \E out \in CreateOutcomes :
                 /\ extraction_results' =
                      ExtractOne(extraction_results, idx, out)
                 /\ callLog' = callLog \o RemoteCall("extract")
                 /\ extractLog' = Append(extractLog,
                      [failed |-> ItemFailed(out),
                       dataset |-> MkDataset(idx, out)])
            /\ idx' = idx + 1
            /\ UNCHANGED <<escaped, self_status, summary, epc>>
    /\ UNCHANGED <<pipeline_config, self_steps, transformation_results,
                   load_results, tj, runs>>
    /\ UNCHANGED nonEtlVars

\* the end of extract_data, and run_pipeline up to the loop of
\* transform_data
ExtractFinish ==
    /\ epc = "extract" /\ idx > Len(pipeline_config.sources)
    /\ self_steps' = Append(self_steps, extraction_results)
    /\ transformation_results' = EmptyTransform
    /\ idx' = 1
    /\ tj' = 1
    /\ epc' = StageAfter("extract")
    /\ UNCHANGED <<pipeline_config, self_status, extraction_results,
                   load_results, summary, escaped, extractLog, attempted,
                   callLog, runs>>
    /\ UNCHANGED nonEtlVars

\* one pass of the inner loop of transform_data: one transformation on one
\* dataset; an exception leaves the inner loop for the dataset's handler
TransformApply ==
    /\ epc = "transform"
    /\ idx <= Len(extraction_results.datasets_created)
    /\ tj <= Len(pipeline_config.transformations)
    /\ attempted' = Append(attempted, <<"transform", idx, tj>>)
    /\ IF pipeline_config.transformations[tj] = "enrichment"
       THEN \E out \in EnrichOutcomes :
              /\ callLog' = callLog \o RemoteCall("transform")
              /\ IF out = "ok"
                 THEN /\ transformation_results' =
                           [transformation_results EXCEPT
                              !.enriched_datasets = Append(@,
                                 extraction_results.datasets_created[idx]
                                    .dataset_id),
                              !.transformations_applied = @ + 1]
                      /\ tj' = tj + 1
                      /\ idx' = idx
                 ELSE /\ transformation_results' = transformation_results
                      /\ tj' = 1
                      /\ idx' = idx + 1
       ELSE /\ transformation_results' =
                 [transformation_results EXCEPT
                    !.quality_checks_passed = @ + 1,
                    !.transformations_applied = @ + 1]
            /\ tj' = tj + 1
            /\ idx' = idx
            /\ callLog' = callLog
    /\ UNCHANGED <<epc, pipeline_config, self_steps, self_status,
                   extraction_results, load_results, summary, escaped,
                   extractLog, runs>>
    /\ UNCHANGED nonEtlVars

\* the inner loop is exhausted: the dataset is counted as processed
TransformDatasetDone ==
    /\ epc = "transform"
    /\ idx <= Len(extraction_results.datasets_created)
    /\ tj > Len(pipeline_config.transformations)
    /\ transformation_results' =
         [transformation_results EXCEPT !.datasets_processed = @ + 1]
    /\ idx' = idx + 1
    /\ tj' = 1
    /\ UNCHANGED <<epc, pipeline_config, self_steps, self_status,
                   extraction_results, load_results, summary, escaped,
                   extractLog, attempted, callLog, runs>>
    /\ UNCHANGED nonEtlVars

\* the end of transform_data, and run_pipeline up to the loop of load_data
TransformFinish ==
    /\ epc = "transform"
    /\ idx > Len(extraction_results.datasets_created)
    /\ self_steps' = Append(self_steps, transformation_results)
    /\ load_results' = EmptyLoad
    /\ idx' = 1
    /\ epc' = StageAfter("transform")
    /\ UNCHANGED <<pipeline_config, self_status, extraction_results,
                   transformation_results, tj, summary, escaped, extractLog,
                   attempted, callLog, runs>>
    /\ UNCHANGED nonEtlVars

\* one pass of the loop of load_data
LoadItem ==
    /\ epc = "load"
    /\ idx <= Len(extraction_results.datasets_created)
    /\ attempted' = Append(attempted, <<"load", idx, 0>>)
    /\ IF pipeline_config.target_type = "dataset"
       THEN \E out \in CreateOutcomes :
              /\ load_results' =
                   LoadOne(load_results,
                           extraction_results.datasets_created[idx]
                              .dataset_id,
                           out)
              /\ callLog' = callLog \o RemoteCall("load")
       ELSE /\ load_results' = load_results
            /\ callLog' = callLog
    /\ idx' = idx + 1
    /\ UNCHANGED <<epc, pipeline_config, self_steps, self_status,
                   extraction_results, transformation_results, tj, summary,
                   escaped, extractLog, runs>>
    /\ UNCHANGED nonEtlVars

\* the end of load_data, and the rest of run_pipeline: the summary
LoadFinish ==
    /\ epc = "load"
    /\ idx > Len(extraction_results.datasets_created)
    /\ self_steps' = Append(self_steps, load_results)
    /\ summary' = PipelineSummary(Append(self_steps, load_results),
                                  extraction_results,
                                  transformation_results, load_results)
    /\ self_status' = SummaryStatus(extraction_results,
                                    transformation_results, load_results)
    /\ epc' = StageAfter("load")
    /\ UNCHANGED <<pipeline_config, extraction_results,
                   transformation_results, load_results, idx, tj, escaped,
                   extractLog, attempted, callLog, runs>>
    /\ UNCHANGED nonEtlVars

(***************************************************************************)
(* managed_client (client_manager.py), a generator wrapped by              *)
(* contextlib.contextmanager, and the with statement that uses it.         *)
(***************************************************************************)
\* an argument or environment variable: absent, empty, or a value
Absent == "<absent>"
DEFAULT_URL == "https://dev.mindziestudio.com"

\* a or b for strings and None
OrElse(a, b) == IF a \in {Absent, ""} THEN b ELSE a

\* os.getenv(name, default)
GetEnv(value, default) == IF value = Absent THEN default ELSE value

\* str.rstrip("/") on the URLs of the model
RStripSlash(u) == IF u = "/" THEN "" ELSE u

\* lines 57-62: the credentials after the environment was consulted
EffectiveUrl(a) ==
    IF a.base_url \in {Absent, ""}
    THEN RStripSlash(GetEnv(a.env_url, DEFAULT_URL))
    ELSE a.base_url
EffectiveTenant(a) == OrElse(a.tenant_id, a.env_tenant)
EffectiveKey(a) == OrElse(a.api_key, a.env_key)

Truthy(v) == v \notin {Absent, ""}

\* all([base_url, tenant_id, api_key])
CredentialsComplete(a) ==
    /\ Truthy(EffectiveUrl(a))
    /\ Truthy(EffectiveTenant(a))
    /\ Truthy(EffectiveKey(a))

CmArgs ==
    [base_url : {Absent, "u"}, env_url : {Absent, "/", "u"},
     tenant_id : {Absent, "t"}, env_tenant : {Absent, "t"},
     api_key : {Absent, "k"}, env_key : {Absent, "", "k"}]

\* what the body of the with statement can do
BodyOutcomes == {"none", "ValueError", "KeyboardInterrupt"}

\* the exception leaving the with statement if a failing close() were not
\* caught by the except Exception of lines 85-89
AfterClose_CloseErrorWins(bodyExc, closeOutcome) ==
    IF closeOutcome = "raises" THEN "CloseError" ELSE bodyExc
\* the finally block swallows an exception of close(): what was raised
\* at the yield goes on
AfterClose(bodyExc, closeOutcome) == bodyExc

CmInit ==
    /\ cm_pc = "enter"
    /\ cm_args \in CmArgs
    /\ cm_client = "None"
    /\ close_calls = 0
    /\ body_exc = "none"
    /\ leaving = "none"
    /\ cm_warned = FALSE

\* lines 57-71: resolve and validate the credentials
CM_Enter ==
    /\ cm_pc = "enter"
    /\ IF CredentialsComplete(cm_args)
       THEN /\ cm_pc' = "construct"
            /\ leaving' = leaving
       ELSE /\ cm_pc' = "left"
            /\ leaving' = "ValueError"
    /\ UNCHANGED <<cm_args, cm_client, close_calls, body_exc, cm_warned>>
    /\ UNCHANGED nonCmVars

\* lines 73-81: client = None; client = MindzieAPIClient(...); yield client
CM_Construct ==
    /\ cm_pc = "construct"
    /\ \E out \in {"ok", "raises"} :
         IF out = "ok"
         THEN /\ cm_client' = "client"
              /\ cm_pc' = "body"
              /\ body_exc' = body_exc
         ELSE /\ cm_client' = "None"
              /\ cm_pc' = "finally"
              /\ body_exc' = "MindzieAPIException"
    /\ UNCHANGED <<cm_args, close_calls, leaving, cm_warned>>
    /\ UNCHANGED nonCmVars

\* the body of the with statement ends or raises; __exit__ resumes the
\* generator at the yield, by next() or by throw()
CM_Body ==
    /\ cm_pc = "body"
    /\ \E exc \in BodyOutcomes : body_exc' = exc
    /\ cm_pc' = "finally"
    /\ UNCHANGED <<cm_args, cm_client, close_calls, leaving, cm_warned>>
    /\ UNCHANGED nonCmVars

\* lines 82-89: if client: try: client.close() except Exception: print
CM_Finally ==
    /\ cm_pc = "finally"
    /\ IF cm_client # "None"
       THEN \E closeOutcome \in {"ok", "raises"} :
              /\ close_calls' = close_calls + 1
              /\ cm_warned' = (closeOutcome = "raises")
              /\ leaving' = AfterClose(body_exc, closeOutcome)
       ELSE /\ leaving' = body_exc
            /\ UNCHANGED <<close_calls, cm_warned>>
    /\ cm_pc' = "left"
    /\ UNCHANGED <<cm_args, cm_client, body_exc>>
    /\ UNCHANGED nonCmVars

CmNext == CM_Enter \/ CM_Construct \/ CM_Body \/ CM_Finally

\* managed_client is not used
CmIdle ==
    /\ cm_pc = "none"
    /\ cm_args = [base_url |-> Absent, env_url |-> Absent,
                  tenant_id |-> Absent, env_tenant |-> Absent,
                  api_key |-> Absent, env_key |-> Absent]
    /\ cm_client = "None"
    /\ close_calls = 0
    /\ body_exc = "none"
    /\ leaving = "none"
    /\ cm_warned = FALSE

(***************************************************************************)
(* projects/delete_project.py: check_project_dependencies,                  *)
(* create_project_backup, confirm_deletion, delete_project and main.       *)
(***************************************************************************)
MaxDatasets == 1
MaxInvestigations == 1

\* a dashboard is shared if it has IsPublic or SharedWith
DashboardLists ==
    {<<>>, <<"private">>, <<"shared">>, <<"private", "shared">>}

\* what the three listings can do: raise, or return their items
Raises == [kind |-> "raises"]
DatasetResponses ==
    {Raises} \cup [kind : {"ok"}, items : 0..MaxDatasets]
DashboardResponses ==
    {Raises} \cup [kind : {"ok"}, items : DashboardLists]
InvestigationResponses ==
    {Raises} \cup [kind : {"ok"}, items : 0..MaxInvestigations]

CountOf(resp) == IF resp.kind = "ok" THEN resp.items ELSE 0
ListOf(resp) == IF resp.kind = "ok" THEN resp.items ELSE <<>>

\* [d for d in dependencies['dashboards'] if d.get('IsPublic') or ...]
SharedCount(list) == Cardinality({i \in 1..Len(list) : list[i] = "shared"})

\* the dictionary before any listing
NoDependencies ==
    [datasets |-> 0, dashboards |-> <<>>, investigations |-> 0,
     active_executions |-> 0, total_items |-> 0, blocking_issues |-> <<>>]

\* check_project_dependencies: a listing that raises leaves its entry
\* empty; active_executions is always the empty placeholder list
check_project_dependencies(ds, db, inv) ==
    [datasets |-> CountOf(ds),
     dashboards |-> ListOf(db),
     investigations |-> CountOf(inv),
     active_executions |-> 0,
     total_items |-> CountOf(ds) + Len(ListOf(db)) + CountOf(inv) + 0,
     blocking_issues |->
        IF SharedCount(ListOf(db)) > 0 THEN <<"shared dashboards">>
        ELSE <<>>]

\* delete_project returns False on a blocking issue only
DependenciesBlock_IssuesOnly(deps, cascade) == deps.blocking_issues # <<>>
\* lines 229-238: the two early returns of delete_project
DependenciesBlock(deps, cascade) ==
    \/ deps.blocking_issues # <<>>
    \/ deps.total_items > 0 /\ ~cascade

PROJECT_ID == "p1"
TypedIds == {"p1", "P1", "p1 ", ""}
TypedWords == {"DELETE", "delete", "yes"}

\* the second confirmation compared without regard to letter case
SecondConfirmationOK_AnyCase(word) == word \in {"DELETE", "delete"}
\* line 325: response != "DELETE"
SecondConfirmationOK(word) == word = "DELETE"

\* main going on after a backup that returned None
BackupStops_Never(no_backup, path) == FALSE
\* lines 398-402: main returns when the backup was asked for and failed
BackupStops(no_backup, path) == ~no_backup /\ path = "None"

DelArgs ==
    [dry_run : BOOLEAN, no_backup : BOOLEAN, yes : BOOLEAN,
     force : BOOLEAN, cascade : BOOLEAN]

\* main() is started, or delete_project is called directly
DelInit ==
    /\ via_main \in BOOLEAN
    /\ del_pc = IF via_main THEN "main" ELSE "delete"
    /\ del_args \in DelArgs
    /\ via_main \/ (~del_args.dry_run /\ ~del_args.no_backup /\ ~del_args.yes)
    /\ dependencies = NoDependencies
    /\ dp_dependencies = NoDependencies
    /\ backup_path = "None"
    /\ backup_state = "not_run"
    /\ typed = <<>>
    /\ delete_calls = 0
    /\ del_result = "none"

\* main lines 361-394: ping, project id, dependencies, dry run
Del_Main ==
    /\ del_pc = "main"
    /\ \E start \in {"ok", "ping_raises", "no_projects"} :
         IF start = "ok"
         THEN /\ \E ds \in DatasetResponses, db \in DashboardResponses,
                    inv \in InvestigationResponses :
                   dependencies' = check_project_dependencies(ds, db, inv)
              /\ del_pc' = IF del_args.dry_run THEN "done" ELSE "backup"
         ELSE /\ dependencies' = dependencies
              /\ del_pc' = "done"
    /\ UNCHANGED <<del_args, via_main, dp_dependencies, backup_path,
                   backup_state, typed, delete_calls, del_result>>
    /\ UNCHANGED nonDelVars

\* main lines 396-402 and create_project_backup: the path is returned
\* after the file was written, None after any failure
Del_Backup ==
    /\ del_pc = "backup"
    /\ IF del_args.no_backup
       THEN /\ UNCHANGED <<backup_path, backup_state>>
            /\ del_pc' = "confirm"
       ELSE \E out \in {"written", "failed"} :
              /\ backup_state' = out
              /\ backup_path' = IF out = "written" THEN "path" ELSE "None"
              /\ del_pc' =
                   IF BackupStops(del_args.no_backup,
                                  IF out = "written" THEN "path" ELSE "None")
                   THEN "done" ELSE "confirm"
    /\ UNCHANGED <<del_args, via_main, dependencies, dp_dependencies, typed,
                   delete_calls, del_result>>
    /\ UNCHANGED nonDelVars

\* main lines 404-408 and confirm_deletion
Del_Confirm ==
    /\ del_pc = "confirm"
    /\ IF del_args.yes
       THEN /\ typed' = typed
            /\ del_pc' = "delete"
       ELSE IF dependencies.blocking_issues # <<>>
       THEN /\ typed' = typed
            /\ del_pc' = "done"
       ELSE \E user_input \in TypedIds, response \in TypedWords :
              IF user_input # PROJECT_ID
              THEN /\ typed' = <<user_input>>
                   /\ del_pc' = "done"
              ELSE /\ typed' = <<user_input, response>>
                   /\ del_pc' = IF SecondConfirmationOK(response)
                                THEN "delete" ELSE "done"
    /\ UNCHANGED <<del_args, via_main, dependencies, dp_dependencies,
                   backup_path, backup_state, delete_calls, del_result>>
    /\ UNCHANGED nonDelVars

\* delete_project: the dependency check unless forced, then the delete
\* call if the projects controller has a delete method
Del_DeleteProject ==
    /\ del_pc = "delete"
    /\ \E ds \in DatasetResponses, db \in DashboardResponses,
          inv \in InvestigationResponses :
         dp_dependencies' =
            IF del_args.force THEN dp_dependencies
            ELSE check_project_dependencies(ds, db, inv)
    /\ IF ~del_args.force
          /\ DependenciesBlock(dp_dependencies', del_args.cascade)
       THEN /\ del_result' = "False"
            /\ delete_calls' = delete_calls
       ELSE \E has_delete \in BOOLEAN, out \in {"ok", "raises"} :
              IF has_delete
              THEN /\ delete_calls' = delete_calls + 1
                   /\ del_result' = IF out = "ok" THEN "True" ELSE "False"
              ELSE /\ delete_calls' = delete_calls
                   /\ del_result' = "True"
    /\ del_pc' = "done"
    /\ UNCHANGED <<del_args, via_main, dependencies, backup_path,
                   backup_state, typed>>
    /\ UNCHANGED nonDelVars

DelNext == Del_Main \/ Del_Backup \/ Del_Confirm \/ Del_DeleteProject

\* delete_project.py is not run
DelIdle ==
    /\ del_pc = "none"
    /\ del_args = [dry_run |-> FALSE, no_backup |-> FALSE, yes |-> FALSE,
                   force |-> FALSE, cascade |-> FALSE]
    /\ via_main = FALSE
    /\ dependencies = NoDependencies
    /\ dp_dependencies = NoDependencies
    /\ backup_path = "None"
    /\ backup_state = "not_run"
    /\ typed = <<>>
    /\ delete_calls = 0
    /\ del_result = "none"

(***************************************************************************)
(* list_all_investigations (investigations/list_investigations.py) and     *)
(* list_all_dashboards (dashboards/list_dashboards.py).                    *)
(***************************************************************************)
MaxPages == 3
MaxPageSize == 2

\* a response without the key "TotalPages"
NoTotal == 0 - 1
ReportedTotals == {NoTotal} \cup 0..(MaxPages + 1)

\* a service: the number of items on each of its pages (a page past the
\* last one is empty), and the TotalPages it reports, which may change
\* from one value to another at some page
Services ==
    [sizes : [1..MaxPages -> 0..MaxPageSize],
     total_a : ReportedTotals, total_b : ReportedTotals,
     change_at : 1..MaxPages]

\* response["Investigations"] / response["Dashboards"] of page p
PageItems(svc, p) ==
    IF p \in 1..MaxPages
    THEN [i \in 1..svc.sizes[p] |-> [page |-> p, item |-> i]]
    ELSE <<>>

\* the TotalPages entry of the response for page p
ReportedTotal(svc, p) == IF p < svc.change_at THEN svc.total_a ELSE svc.total_b

\* response.get("TotalPages", 1)
GetTotalPages(svc, p) ==
    IF ReportedTotal(svc, p) = NoTotal THEN 1 ELSE ReportedTotal(svc, p)

\* search_investigations(..., max_results: int = 50)
DEFAULT_MAX_RESULTS == 50
\* max_pages = 10 in search_investigations
SEARCH_MAX_PAGES == 10

\* no get_all was made yet
NoResponse == [kind |-> "unset", items |-> <<>>, total |-> NoTotal]
\* get_all gives None or an empty dictionary
EmptyResponse == [kind |-> "none", items |-> <<>>, total |-> NoTotal]
\* get_all raises
RaisingResponse == [kind |-> "raises", items |-> <<>>, total |-> NoTotal]

\* the response of a service for page p
ServiceResponse(svc, p) ==
    [kind |-> "ok", items |-> PageItems(svc, p), total |-> ReportedTotal(svc, p)]

\* the TotalPages a response may report
AnyTotals == ReportedTotals \cup {SEARCH_MAX_PAGES + 1}

\* everything get_all may give for page p: it raises, it gives nothing, or
\* it gives a dictionary with some items (none when the key is missing)
\* and some TotalPages or none
AnyResponses(p) ==
    {EmptyResponse, RaisingResponse} \cup
    {[kind |-> "ok",
      items |-> [i \in 1..n |-> [page |-> p, item |-> i]],
      total |-> t] : n \in 0..MaxPageSize, t \in AnyTotals}

\* if not response or not response.get("Investigations"): break
NothingReturned(resp) == resp.kind = "none" \/ resp.items = <<>>

\* response.get("TotalPages", 1)
TotalPagesOf(resp) == IF resp.total = NoTotal THEN 1 ELSE resp.total

\* the loop never leaving on the page count
WithinPages_Unbounded(p, mp) == TRUE
\* while page <= max_pages
WithinPages(p, mp) == p <= mp

\* len(all_investigations) >= max_results * 2, in search_investigations only
EnoughResults(kind, items, mr) == kind = "search" /\ Len(items) >= mr * 2

\* the loop going on to the page after the last one
LastPage_OneMore(p, total_pages) == p > total_pages
\* if page >= total_pages: break
LastPage(p, total_pages) == p >= total_pages

PageInit ==
    /\ pg_pc = "loop"
    /\ pg_kind \in {"investigations", "dashboards"}
    /\ service \in Services
    /\ max_pages \in 0..(MaxPages + 1)
    /\ page = 1
    /\ all_items = <<>>
    /\ fetchLog = <<>>
    /\ max_results = DEFAULT_MAX_RESULTS
    /\ pg_response = NoResponse

\* one pass of while page <= max_pages, or leaving the loop
PageStep ==
    /\ pg_pc = "loop"
    /\ IF WithinPages(page, max_pages)
       THEN /\ fetchLog' = Append(fetchLog, page)
            /\ pg_response' = ServiceResponse(service, page)
            /\ IF PageItems(service, page) = <<>>
               THEN /\ pg_pc' = "done"
                    /\ UNCHANGED <<all_items, page>>
               ELSE /\ all_items' = all_items \o PageItems(service, page)
                    /\ IF LastPage(page, GetTotalPages(service, page))
                       THEN /\ pg_pc' = "done"
                            /\ page' = page
                       ELSE /\ pg_pc' = "loop"
                            /\ page' = page + 1
       ELSE /\ pg_pc' = "done"
            /\ UNCHANGED <<all_items, page, fetchLog, pg_response>>
    /\ UNCHANGED <<pg_kind, service, max_pages, max_results>>
    /\ UNCHANGED nonPageVars

ListAllInvestigations_Step == pg_kind = "investigations" /\ PageStep
ListAllDashboards_Step == pg_kind = "dashboards" /\ PageStep

PageNext == ListAllInvestigations_Step \/ ListAllDashboards_Step

\* one call of one of the three loops, the service answering anything
FetchLoopInit ==
    /\ pg_pc = "loop"
    /\ pg_kind \in {"investigations", "dashboards", "search"}
    /\ service = [sizes |-> [p \in 1..MaxPages |-> 0], total_a |-> 0,
                  total_b |-> 0, change_at |-> 1]
    /\ max_pages \in IF pg_kind = "search" THEN {SEARCH_MAX_PAGES}
                                           ELSE 0..(MaxPages + 1)
    /\ max_results \in IF pg_kind = "search" THEN {1, DEFAULT_MAX_RESULTS}
                                             ELSE {DEFAULT_MAX_RESULTS}
    /\ page = 1
    /\ all_items = <<>>
    /\ fetchLog = <<>>
    /\ pg_response = NoResponse

\* one pass of while page <= max_pages, or leaving the loop, whatever
\* get_all gives; an exception leaves list_all_* and is caught by the
\* except clauses of search_investigations
FetchLoopPass ==
    /\ pg_pc = "loop"
    /\ IF WithinPages(page, max_pages)
       THEN \E resp \in AnyResponses(page) :
              /\ fetchLog' = Append(fetchLog, page)
              /\ pg_response' = resp
              /\ IF resp.kind = "raises"
                 THEN /\ pg_pc' = IF pg_kind = "search" THEN "done" ELSE "raised"
                      /\ UNCHANGED <<all_items, page>>
                 ELSE IF NothingReturned(resp)
                 THEN /\ pg_pc' = "done"
                      /\ UNCHANGED <<all_items, page>>
                 ELSE /\ all_items' = all_items \o resp.items
                      /\ IF \/ LastPage(page, TotalPagesOf(resp))
                            \/ EnoughResults(pg_kind, all_items', max_results)
                         THEN /\ pg_pc' = "done"
                              /\ page' = page
                         ELSE /\ pg_pc' = "loop"
                              /\ page' = page + 1
       ELSE /\ pg_pc' = "done"
            /\ UNCHANGED <<all_items, page, fetchLog, pg_response>>
    /\ UNCHANGED <<pg_kind, service, max_pages, max_results>>
    /\ UNCHANGED nonPageVars

ListAllInvestigations_Pass == pg_kind = "investigations" /\ FetchLoopPass
ListAllDashboards_Pass == pg_kind = "dashboards" /\ FetchLoopPass
SearchInvestigations_Pass == pg_kind = "search" /\ FetchLoopPass

FetchLoopNext ==
    \/ ListAllInvestigations_Pass
    \/ ListAllDashboards_Pass
    \/ SearchInvestigations_Pass

\* no listing is made
PageIdle ==
    /\ pg_pc = "none"
    /\ pg_kind = "none"
    /\ service = [sizes |-> [p \in 1..MaxPages |-> 0], total_a |-> 0,
                  total_b |-> 0, change_at |-> 1]
    /\ max_pages = 0
    /\ page = 1
    /\ all_items = <<>>
    /\ fetchLog = <<>>
    /\ max_results = DEFAULT_MAX_RESULTS
    /\ pg_response = NoResponse

(***************************************************************************)
(* discover_projects and get_all_projects (projects/api_utils.py).         *)
(***************************************************************************)
MaxProjects == 3
MaxNeeded == 3

ProjectNames == {"A", "B", "C"}

\* the projects of the tenant in the order list_projects returns them
ProjectLists ==
    {l \in SeqsUpTo(ProjectNames, MaxProjects) :
        \A i, j \in 1..Len(l) : i # j => l[i] # l[j]}

\* get_all_projects: the credentials are missing, the client cannot be
\* created, list_projects raises, or it returns the projects
Listings ==
    [kind : {"ok"}, projects : ProjectLists]
    \cup [kind : {"no_credentials", "no_client", "raises"},
          projects : {<<>>}]

ProjectList(l) == [kind |-> "list", items |-> l]

get_all_projects(l) == IF l.kind = "ok" THEN ProjectList(l.projects) ELSE None

\* not projects
NoProjects(ps) == ps = None \/ ps.items = <<>>

\* projects[:n]
Take(l, n) == SubSeq(l, 1, IF n < Len(l) THEN n ELSE Len(l))

DiscInit ==
    /\ ds_pc = "listing"
    /\ needed_count \in 1..MaxNeeded
    /\ listing \in Listings
    /\ projects = Unbound
    /\ ds_result = NoReturn

\* line 196: projects = get_all_projects()
Disc_GetAllProjects ==
    /\ ds_pc = "listing"
    /\ projects' = get_all_projects(listing)
    /\ ds_pc' = "select"
    /\ UNCHANGED <<needed_count, listing, ds_result>>
    /\ UNCHANGED nonDiscVars

\* lines 197-228: None without projects; with fewer projects than needed
\* "return projects[:needed_count]  # Return what we have"; else the
\* first needed_count projects
Disc_Select ==
    /\ ds_pc = "select"
    /\ ds_result' =
         IF NoProjects(projects) THEN None
         ELSE IF Len(projects.items) < needed_count
         THEN ProjectList(Take(projects.items, needed_count))
         ELSE ProjectList(Take(projects.items, needed_count))
    /\ ds_pc' = "done"
    /\ UNCHANGED <<needed_count, listing, projects>>
    /\ UNCHANGED nonDiscVars

DiscNext == Disc_GetAllProjects \/ Disc_Select

\* discover_projects is not called
DiscIdle ==
    /\ ds_pc = "none"
    /\ needed_count = 1
    /\ listing = [kind |-> "ok", projects |-> <<>>]
    /\ projects = Unbound
    /\ ds_result = NoReturn

\* the parts of the model other than part x are not in use
SideIdleBut(x) ==
    /\ x = "cm" \/ CmIdle
    /\ x = "del" \/ DelIdle
    /\ x = "page" \/ PageIdle
    /\ x = "disc" \/ DiscIdle

(***************************************************************************)
(* Specifications: the pollers (Spec, FairSpec) and the pipeline (EtlSpec).*)
(***************************************************************************)
\* no pipeline is constructed in a poller run
EtlIdle ==
    /\ epc = "none"
    /\ pipeline_config =
         [sources |-> <<>>, transformations |-> <<>>,
          target_type |-> "dataset"]
    /\ self_steps = <<>>
    /\ self_status = "initialized"
    /\ extraction_results = EmptyExtract
    /\ transformation_results = EmptyTransform
    /\ load_results = EmptyLoad
    /\ idx = 1
    /\ tj = 1
    /\ summary = NoSummary
    /\ escaped = FALSE
    /\ extractLog = <<>>
    /\ attempted = <<>>
    /\ callLog = <<>>
    /\ runs = 0

\* no poller runs in a pipeline run
PollIdle ==
    /\ poller = "none"
    /\ pc = "done"
    /\ max_duration = 1
    /\ check_interval = 1
    /\ fetch_latency = 0
    /\ start_time = 0
    /\ now = 0
    /\ execution = Unbound
    /\ status = "<unbound>"
    /\ progress = "<unbound>"
    /\ elapsed_time = NoElapsed
    /\ retval = NoReturn
    /\ raised = "none"
    /\ printed = {}
    /\ fetches = 0
    /\ sleeps = 0
    /\ lastFetched = Unbound
    /\ fetchFailed = FALSE
    /\ onlyRunning = TRUE
    /\ firstTerminalAt = 0
    /\ interrupted = FALSE
    /\ last_status = "<None>"
    /\ last_progress = "<None>"
    /\ status_history = <<>>

\* no main() has returned, no package was requested
MainIdle ==
    /\ exit_code = NoExit
    /\ downloads = <<>>

Init == PollInit /\ EtlIdle /\ MainIdle /\ SideIdleBut("none")
Next == PollNext
Spec == Init /\ [][Next]_vars

\* the loops run on the calling thread: a step of the poller that can be
\* taken is taken; nothing obliges the operator to interrupt
PollerSteps ==
    \/ M_Check \/ M_Fetch \/ M_Sleep \/ M_Return
    \/ E_Check \/ E_Fetch \/ E_Sleep
    \/ W_Check \/ W_Fetch \/ W_Sleep
FairSpec == Spec /\ WF_vars(PollerSteps)

EtlNext ==
    \/ RunPipelineStart
    \/ ExtractItem \/ ExtractFinish
    \/ TransformApply \/ TransformDatasetDone \/ TransformFinish
    \/ LoadItem \/ LoadFinish

EtlSpecInit == EtlInit /\ PollIdle /\ MainIdle /\ SideIdleBut("none")
EtlSpec == EtlSpecInit /\ [][EtlNext]_vars

\* a pipeline instance whose run_pipeline is called up to MaxRuns times, on
\* configurations of at most one source and one transformation
EtlRerunInit ==
    /\ EtlInit
    /\ Len(pipeline_config.sources) <= 1
    /\ Len(pipeline_config.transformations) <= 1
    /\ PollIdle
    /\ MainIdle
    /\ SideIdleBut("none")
EtlRerunNext == EtlNext \/ RunPipelineAgain
EtlRerunSpec == EtlRerunInit /\ [][EtlRerunNext]_vars

\* download_execution_package is called on an execution id: one get_by_id
DownloadInit ==
    /\ poller = "D"
    /\ pc = "fetch"
    /\ max_duration = 1
    /\ check_interval = 1
    /\ fetch_latency \in 0..MaxLatency
    /\ start_time = 0
    /\ now = 0
    /\ execution = Unbound
    /\ status = "<unbound>"
    /\ progress = "<unbound>"
    /\ elapsed_time = NoElapsed
    /\ retval = NoReturn
    /\ raised = "none"
    /\ printed = {}
    /\ fetches = 0
    /\ sleeps = 0
    /\ lastFetched = Unbound
    /\ fetchFailed = FALSE
    /\ onlyRunning = TRUE
    /\ firstTerminalAt = 0
    /\ interrupted = FALSE
    /\ last_status = "<None>"
    /\ last_progress = "<None>"
    /\ status_history = <<>>

\* the scripts: a poller inside its main(), or one package download
MainInit ==
    /\ PollInit \/ DownloadInit
    /\ EtlIdle
    /\ MainIdle
    /\ SideIdleBut("none")
MainSpecNext == PollNext \/ MainNext
MainSpec == MainInit /\ [][MainSpecNext]_vars

\* one with managed_client(...) as client: statement
CmSpecInit ==
    /\ CmInit
    /\ PollIdle
    /\ EtlIdle
    /\ MainIdle
    /\ SideIdleBut("cm")
CmSpec == CmSpecInit /\ [][CmNext]_vars

\* one run of delete_project.py, or one direct call of delete_project
DelSpecInit ==
    /\ DelInit
    /\ PollIdle
    /\ EtlIdle
    /\ MainIdle
    /\ SideIdleBut("del")
DelSpec == DelSpecInit /\ [][DelNext]_vars

\* one call of list_all_investigations or of list_all_dashboards
PageSpecInit ==
    /\ PageInit
    /\ PollIdle
    /\ EtlIdle
    /\ MainIdle
    /\ SideIdleBut("page")
PageSpec == PageSpecInit /\ [][PageNext]_vars

\* one call of a paginated fetch loop against a service answering anything
FetchLoopSpecInit ==
    /\ FetchLoopInit
    /\ PollIdle
    /\ EtlIdle
    /\ MainIdle
    /\ SideIdleBut("page")
FetchLoopSpec == FetchLoopSpecInit /\ [][FetchLoopNext]_vars

\* one call of discover_projects
DiscSpecInit ==
    /\ DiscInit
    /\ PollIdle
    /\ EtlIdle
    /\ MainIdle
    /\ SideIdleBut("disc")
DiscSpec == DiscSpecInit /\ [][DiscNext]_vars

TypeOK ==
    /\ pc \in {"check", "fetch", "sleep", "return", "download", "done",
               "exited"}
    /\ epc \in {"none", "idle", "extract", "transform", "load", "done"}

(***************************************************************************)
(* Properties of the pollers.                                              *)
(***************************************************************************)
\* the record handed back to the caller
ReturnedRecord == IF retval.kind = "triple" THEN retval.execution ELSE retval

NoMorePolling == fetches' = fetches /\ sleeps' = sleeps

C2_FailureEndsMonitor ==
    [][(poller = "M" /\ ReportsFailure(lastFetched)) =>
         /\ NoMorePolling
         /\ pc' = "done" =>
              /\ retval' = [kind |-> "triple", execution |-> lastFetched,
                            status |-> GetStatus(lastFetched),
                            progress |-> GetProgress(lastFetched)]
              /\ "failure" \in printed'
              /\ "success" \notin printed'
              /\ raised' = "none"]_vars

C2_Witness ==
    /\ pc = "done" /\ poller = "M" /\ fetches = 2 /\ sleeps = 1
    /\ lastFetched.kind = "record" /\ lastFetched.status = "aborted"
    /\ retval.kind = "triple" /\ retval.status = "aborted"

\* C3: in monitor_execution and step_3_monitor_execution, once a fetch has
\* reported failed, error, cancelled, aborted or timeout no further fetch and
\* no further sleep happens and the poller returns that record as a failure.
C3_FailureEndsPolling ==
    [][(poller \in {"E", "W"} /\ ReportsFailure(lastFetched)
          /\ ~interrupted') =>
         /\ NoMorePolling
         /\ pc' = "done" =>
              /\ retval' = lastFetched
              /\ "failure" \in printed']_vars

FakeClock == now - start_time = sleeps * check_interval

\* C5: with a clock that advances only by sleep(interval) and a fetch that
\* always reports "running", monitor and monitor_execution, when the
\* interval divides max_duration, end with the timeout message after
\* exactly max_duration / interval fetches.
C5_ExactFetchCount ==
    (/\ pc = "done" /\ poller \in {"M", "E"}
     /\ onlyRunning /\ ~interrupted /\ FakeClock
     /\ max_duration % check_interval = 0) =>
        /\ "timeout" \in printed
        /\ fetches = max_duration \div check_interval

\* C6: when the first terminal status is reported by the k-th fetch, the
\* poller makes exactly k fetches and k-1 sleeps and returns the k-th record.
C6_ReturnsOnFirstTerminal ==
    (/\ pc = "done" /\ poller \in {"M", "E"}
     /\ firstTerminalAt > 0 /\ ~interrupted /\ ~fetchFailed) =>
        /\ fetches = firstTerminalAt
        /\ sleeps = firstTerminalAt - 1
        /\ ReturnedRecord = lastFetched

\* C7: after a KeyboardInterrupt in the loop no further fetch and no further
\* sleep happens, and monitor and step_3_monitor_execution return normally.
C7_InterruptAborts ==
    /\ [][interrupted => NoMorePolling]_vars
    /\ []((pc = "done" /\ interrupted /\ poller \in {"M", "W"}) =>
            (raised = "none" /\ retval # NoReturn))

(***************************************************************************)
(* Properties of the pipeline.                                             *)
(***************************************************************************)
\* extract_data has returned
ExtractReturned == epc \in {"transform", "load", "done"} /\ ~escaped

RECURSIVE FailedCount(_)
FailedCount(log) ==
    IF log = <<>> THEN 0
    ELSE (IF Head(log).failed THEN 1 ELSE 0) + FailedCount(Tail(log))

RECURSIVE SucceededRecords(_)
SucceededRecords(log) ==
    IF log = <<>> THEN 0
    ELSE (IF Head(log).failed THEN 0
          ELSE record_count_of(Head(log).dataset))
         + SucceededRecords(Tail(log))

RECURSIVE SucceededDatasets(_)
SucceededDatasets(log) ==
    IF log = <<>> THEN <<>>
    ELSE (IF Head(log).failed THEN <<>> ELSE <<Head(log).dataset>>)
         \o SucceededDatasets(Tail(log))

\* C8: extract_data over N sources of which M failed returns
\* sources_processed = N - M and total_records = the sum of the record counts
\* of the sources that succeeded, and datasets_created holds the datasets of
\* the sources that succeeded and nothing of a source that failed.
C8_ExtractCounts ==
    ExtractReturned =>
       /\ Len(extractLog) = Len(pipeline_config.sources)
       /\ extraction_results.sources_processed =
            Len(pipeline_config.sources) - FailedCount(extractLog)
       /\ extraction_results.total_records = SucceededRecords(extractLog)
       /\ extraction_results.datasets_created = SucceededDatasets(extractLog)

\* the sum of the record counts of the datasets of a list
RECURSIVE SumRecordCounts(_)
SumRecordCounts(datasets) ==
    IF datasets = <<>> THEN 0
    ELSE record_count_of(Head(datasets)) + SumRecordCounts(Tail(datasets))

\* C26: after extract_data, whichever sources failed and wherever in the
\* try block they failed, sources_processed is the length of
\* datasets_created and total_records is the sum of the record counts of
\* the entries of datasets_created.
C26_AccumulatorsConsistent ==
    ExtractReturned =>
       /\ extraction_results.sources_processed =
            Len(extraction_results.datasets_created)
       /\ extraction_results.total_records =
            SumRecordCounts(extraction_results.datasets_created)

\* C9: run_pipeline returns status "completed" and leaves self.status =
\* "completed" whatever items failed in extract, transform and load, and it
\* returns "failed" (with self.status = "failed") exactly when an exception
\* reached its own handler.
C9_CompletedDespiteItemFailures ==
    epc = "done" =>
       IF escaped
       THEN summary.status = "failed" /\ self_status = "failed"
       ELSE summary.status = "completed" /\ self_status = "completed"

\* every source, every transformation of every dataset and every load failed
C9_Witness ==
    /\ epc = "done" /\ ~escaped
    /\ summary.status = "completed"
    /\ Len(pipeline_config.sources) = 2
    /\ FailedCount(extractLog) = 2
    /\ Len(extraction_results.datasets_created) = 2
    /\ Len(pipeline_config.transformations) > 0
    /\ transformation_results.datasets_processed = 0
    /\ pipeline_config.target_type = "dataset"
    /\ load_results.datasets_loaded = 0

\* the items in the order the stages are to attempt them
ItemsOf(stage, n) == [i \in 1..n |-> <<stage, i, 0>>]
RECURSIVE TransformItems(_, _, _)
TransformItems(d, nd, nt) ==
    IF d > nd THEN <<>>
    ELSE [t \in 1..nt |-> <<"transform", d, t>>]
         \o TransformItems(d + 1, nd, nt)

\* C10: in a run that no exception escapes, every source, every
\* transformation on every extracted dataset and every dataset to load is
\* attempted exactly once, in input order, whatever earlier items did.
C10_EveryItemAttempted ==
    (epc = "done" /\ ~escaped) =>
       attempted =
          ItemsOf("extract", Len(pipeline_config.sources))
          \o TransformItems(1, Len(extraction_results.datasets_created),
                            Len(pipeline_config.transformations))
          \o ItemsOf("load", Len(extraction_results.datasets_created))

StageRank(stage) ==
    CASE stage = "extract" -> 1
      [] stage = "transform" -> 2
      [] stage = "load" -> 3
      [] OTHER -> 4

\* C11: in a run of run_pipeline every remote call has ended before the
\* next one starts, the calls are ordered extract, transform, load, and
\* while a stage runs no call of a later stage has been made.
C11_StagesSequential ==
    /\ Len(callLog) % 2 = 0
    /\ \A k \in 1..(Len(callLog) \div 2) :
         /\ callLog[2 * k - 1].event = "start"
         /\ callLog[2 * k] = [stage |-> callLog[2 * k - 1].stage,
                              event |-> "end"]
         /\ StageRank(callLog[2 * k].stage) <= StageRank(epc)
         /\ k > 1 => StageRank(callLog[2 * k - 2].stage)
                        <= StageRank(callLog[2 * k].stage)

C11_Witness ==
    /\ epc = "done" /\ ~escaped
    /\ \E i, j, k \in 1..Len(callLog) :
         /\ i < j /\ j < k
         /\ callLog[i].stage = "extract"
         /\ callLog[j].stage = "transform"
         /\ callLog[k].stage = "load"
    /\ Len(callLog) >= 10

\* C12: every completed run_pipeline call, a second call on the same
\* instance included, reports steps_completed = 3, total_records_processed =
\* the record counts of the sources extracted successfully in that run, and
\* final_datasets = that run's load target datasets.
C12_StepsLocalToRun ==
    (epc = "done" /\ ~escaped) =>
       /\ summary.steps_completed = 3
       /\ summary.total_records_processed = SucceededRecords(extractLog)
       /\ summary.final_datasets = load_results.target_datasets

\* C21: for any max_duration > 0 and any delay between constructing the
\* ExecutionMonitor and calling monitor(), monitor() fetches at least once
\* and returns a defined (execution, status, progress) triple instead of
\* raising.
C21_FetchesBeforeTimeout ==
    (poller = "M" /\ pc = "done" /\ ~interrupted) =>
       /\ fetches >= 1
       /\ raised = "none"
       /\ retval.kind = "triple"

\* the fetch just made raised or returned no record
FetchJustFailed == fetches' = fetches + 1 /\ lastFetched'.kind # "record"

\* C22: in ExecutionMonitor.monitor a fetch that raises or returns no record
\* never ends the loop: the sleep of check_interval seconds follows; and
\* when a later fetch reports a terminal status the monitor returns that
\* record and that status.
C22_MonitorToleratesFetchErrors ==
    /\ [][poller = "M" =>
            /\ FetchJustFailed => pc' = "sleep"
            /\ FetchJustFailed => retval' = NoReturn
            /\ sleeps' = sleeps + 1 => now' = now + check_interval]_vars
    /\ []((poller = "M" /\ pc = "done" /\ fetchFailed
           /\ ReportsTerminal(lastFetched)) =>
             /\ retval.kind = "triple"
             /\ retval.execution = lastFetched
             /\ retval.status = GetStatus(lastFetched))

C22_Witness ==
    /\ poller = "M" /\ pc = "done" /\ ~interrupted
    /\ fetchFailed /\ firstTerminalAt = 3
    /\ ReportsTerminal(lastFetched)
    /\ retval.kind = "triple" /\ retval.execution = lastFetched

\* C23: in monitor_execution and step_3_monitor_execution the first fetch
\* that raises or returns an empty record ends the loop: the poller returns
\* None, and no fetch or sleep follows it.
C23_FirstFetchErrorAborts ==
    [][(poller = "E" \/ poller = "W") =>
         /\ FetchJustFailed => pc' = "done"
         /\ FetchJustFailed => retval' = None
         /\ fetchFailed => NoMorePolling
         /\ fetchFailed => retval' = None
         /\ fetchFailed => pc = "done"]_vars

C23_Witness ==
    /\ poller \in {"E", "W"} /\ pc = "done"
    /\ fetches = 2 /\ sleeps = 1
    /\ fetchFailed /\ lastFetched = FetchError
    /\ retval = None

(***************************************************************************)
(* Properties of the mains and of the package download.                    *)
(***************************************************************************)
TimedOut == "timeout" \in printed

\* C13: a main returns 0 only when the execution was observed with a
\* success status, and returns 1 when it was observed failed, when the
\* monitoring timed out, or when the status could not be fetched.
C13_ExitCodeReflectsOutcome ==
    (pc = "exited" /\ poller \in {"M", "E", "W"} /\ exit_code # NoExit) =>
       /\ exit_code = 0 => ReportsSuccess(lastFetched)
       /\ (ReportsFailure(lastFetched) \/ TimedOut \/ fetchFailed) =>
            exit_code = 1

\* C20: download_package is requested only when the most recently fetched
\* status of the execution is completed, finished or success (in any
\* letter case): never for a missing, running or failed execution.
C20_DownloadOnlyAfterSuccess ==
    [][downloads' # downloads =>
         /\ lastFetched.kind = "record"
         /\ Lower(GetStatus(lastFetched)) \in {"completed", "finished",
                                               "success"}
         /\ downloads'[Len(downloads')].status = GetStatus(lastFetched)
         /\ lastFetched' = lastFetched]_vars

C20_Witness ==
    /\ Len(downloads) = 1
    /\ downloads[1].by = "W"
    /\ fetches >= 2
    /\ Lower(downloads[1].status) = "success"

(***************************************************************************)
(* Properties of managed_client.                                           *)
(***************************************************************************)
\* C14: whenever the client was constructed, close() is called exactly once
\* when the with block is left, on a normal exit and when the body raises,
\* never before; what the body raised leaves the with statement unchanged
\* even if close() raises.  Without a client there is no close() call.
C14_ClosedExactlyOnce ==
    /\ cm_pc \in {"enter", "construct", "body", "finally"} => close_calls = 0
    /\ (cm_pc = "left" /\ cm_client = "client") =>
          /\ close_calls = 1
          /\ leaving = body_exc
    /\ (cm_pc = "left" /\ cm_client = "None") => close_calls = 0

C14_Witness ==
    /\ cm_pc = "left"
    /\ cm_client = "client"
    /\ body_exc = "ValueError"
    /\ cm_warned

(***************************************************************************)
(* Properties of delete_project.py.                                        *)
(***************************************************************************)
BothConfirmations == typed = <<PROJECT_ID, "DELETE">>

\* C15: main calls client.projects.delete only if --dry-run is not set and
\* either --yes was given or the operator typed exactly the project id and
\* then exactly DELETE; in every other case there is no delete call.
C15_DeleteNeedsConfirmation ==
    (via_main /\ delete_calls > 0) =>
       /\ ~del_args.dry_run
       /\ del_args.yes \/ BothConfirmations

C15_Witness ==
    /\ via_main /\ delete_calls = 1
    /\ ~del_args.yes
    /\ BothConfirmations

\* C16: unless --no-backup is given, the delete call happens only after
\* create_project_backup wrote the backup file and returned its path; after
\* a failed backup there is no confirmation prompt and no delete call.
C16_BackupBeforeDelete ==
    (via_main /\ ~del_args.no_backup) =>
       /\ delete_calls > 0 => (backup_state = "written" /\ backup_path = "path")
       /\ typed # <<>> => backup_state = "written"
       /\ del_pc \in {"confirm", "delete"} => backup_state = "written"
       /\ backup_state = "failed" => (typed = <<>> /\ delete_calls = 0)

C16_Witness ==
    /\ via_main /\ ~del_args.no_backup
    /\ delete_calls = 1
    /\ backup_state = "written"
    /\ typed # <<>>

\* C17: delete_project with force_delete = False makes no delete call and
\* returns False when its dependency check reports a blocking issue, or
\* reports total_items > 0 while cascade_delete is False.
C17_DependenciesBlockDelete ==
    (/\ del_result # "none"
     /\ ~del_args.force
     /\ \/ dp_dependencies.blocking_issues # <<>>
        \/ dp_dependencies.total_items > 0 /\ ~del_args.cascade) =>
       (delete_calls = 0 /\ del_result = "False")

C17_Witness ==
    /\ del_result = "False"
    /\ ~del_args.force /\ ~del_args.cascade
    /\ dp_dependencies.total_items > 0
    /\ dp_dependencies.blocking_issues = <<>>
    /\ delete_calls = 0

(***************************************************************************)
(* Properties of the paginated listings.                                   *)
(***************************************************************************)
RECURSIVE PagesUpTo(_, _)
PagesUpTo(svc, t) ==
    IF t = 0 THEN <<>> ELSE PagesUpTo(svc, t - 1) \o PageItems(svc, t)

\* the service reports TotalPages = t on each of its pages 1..t, none of
\* which is empty, and t is within max_pages
ConsistentService(t) ==
    /\ t <= max_pages
    /\ \A p \in 1..t : ReportedTotal(service, p) = t
                       /\ PageItems(service, p) # <<>>

\* C18: when the service reports TotalPages = T <= max_pages and each of
\* the pages 1..T is non-empty, the listing returns the items of pages 1..T
\* in page order, having requested each of these pages exactly once and no
\* other page.
C18_AllPagesInOrder ==
    \A t \in 1..MaxPages :
       (pg_pc = "done" /\ ConsistentService(t)) =>
          /\ all_items = PagesUpTo(service, t)
          /\ fetchLog = [i \in 1..t |-> i]

C18_Witness ==
    /\ pg_pc = "done"
    /\ ConsistentService(MaxPages)
    /\ Len(fetchLog) = MaxPages
    /\ Len(all_items) > MaxPages

\* C25: the status_history of an ExecutionMonitor records exactly the
\* status changes: no two consecutive entries carry the same status, after
\* a poll the last entry is last_status, a poll adds one entry when its
\* status differs from the status of the poll before it (the first poll
\* always adds one) and none otherwise, and nothing else touches the history.
C25_HistoryRecordsChanges ==
    /\ [](poller = "M" =>
            /\ \A i \in 1..(Len(status_history) - 1) :
                   status_history[i] # status_history[i + 1]
            /\ fetches = 0 => status_history = <<>>
            /\ fetches >= 1 => status_history # <<>>
            /\ fetches >= 1 => status_history[Len(status_history)] = last_status
            /\ fetches >= 1 => last_status = status)
    /\ [][poller = "M" =>
            /\ (fetches' = fetches + 1 /\ (fetches = 0 \/ status' # status))
                  => status_history' = Append(status_history, status')
            /\ (fetches' = fetches + 1 /\ fetches >= 1 /\ status' = status)
                  => status_history' = status_history
            /\ fetches' = fetches => status_history' = status_history]_vars

C25_Witness ==
    /\ poller = "M" /\ pc = "done"
    /\ fetches = 4
    /\ Len(status_history) = 2
    /\ status_history[1] = "Running"
    /\ ReportsTerminal(lastFetched)

\* a get_all was just made
JustFetched == fetchLog' = Append(fetchLog, page)

\* C24: each of the three fetch loops makes at most max_pages fetches,
\* requests the pages 1, 2, 3, ... in order without gap or repeat, every
\* pass either ends the loop or moves on to the next page, and the loop
\* ends at the first empty response and as soon as the page number reaches
\* the TotalPages the response reports.
C24_LoopsTerminateInOrder ==
    /\ [](Len(fetchLog) <= max_pages)
    /\ [](fetchLog = [i \in 1..Len(fetchLog) |-> i])
    /\ [][pg_pc = "loop" =>
            /\ pg_pc' = "loop" => JustFetched
            /\ pg_pc' = "loop" => page' = page + 1
            /\ JustFetched \/ page > max_pages
            /\ NothingReturned(pg_response') => pg_pc' # "loop"
            /\ page >= TotalPagesOf(pg_response') => pg_pc' # "loop"]_vars
    /\ [][pg_pc # "loop" => UNCHANGED fetchLog]_vars

C24_Witness ==
    /\ pg_kind = "search"
    /\ pg_pc = "done"
    /\ Len(fetchLog) = SEARCH_MAX_PAGES
    /\ ~NothingReturned(pg_response)
    /\ page = SEARCH_MAX_PAGES + 1
    /\ page <= TotalPagesOf(pg_response)

(***************************************************************************)
(* Properties of discover_projects.                                        *)
(***************************************************************************)
\* the number of projects the listing makes available
Available == IF listing.kind = "ok" THEN Len(listing.projects) ELSE 0

\* C19: discover_projects returns None whenever fewer than needed_count
\* projects are available (none at all and a failed listing included), and
\* otherwise exactly the first needed_count projects in the listed order.
C19_NoneWhenTooFew ==
    ds_pc = "done" =>
       IF Available < needed_count
       THEN ds_result = None
       ELSE ds_result = ProjectList(SubSeq(listing.projects, 1, needed_count))

====
